---- MODULE Spec2Model ----
(***************************************************************************)
(* Model of the questionnaire server in src/main.go: the fixed question    *)
(* catalog, the mutex-guarded answer store, and the two request handlers    *)
(* (GET /questions, POST /answers).  Every request runs on its own worker   *)
(* (goroutine); the steps of a worker are the statements of its handler.    *)
(***************************************************************************)
EXTENDS Integers, Sequences, FiniteSets, TLC

\* ------------------------------------------------------------------ bounds

\* Number of request workers (goroutines) that may be in flight together.
NumWorkers == 2

\* Longest "answers" array among the request bodies of the decoding runs.
MaxBatchLen == 2

Workers == 1..NumWorkers

\* ------------------------------------------------------- program constants

StatusOK == 200
StatusBadRequest == 400

\* ------------------------------------------------------------ JSON values
\* A request body is the JSON text the client sent.  It is modelled by its
\* parse tree; text whose first value is not JSON is the value Malformed and
\* a body of zero bytes is EmptyBody.

Malformed == [kind |-> "malformed"]
EmptyBody == [kind |-> "empty"]
JNull == [kind |-> "null"]
JBool == [kind |-> "bool"]
\* A number literal: form "int" is an integer literal that fits in 64 bits,
\* "frac" a literal with a fraction or exponent (1.5), "big" an integer
\* literal outside the range of int (9223372036854775808).
JNum(form, n) == [kind |-> "number", form |-> form, n |-> n]
JStr(s) == [kind |-> "string", s |-> s]
JArr(elems) == [kind |-> "array", elems |-> elems]
\* An object is the sequence of its members in document order; a key may
\* occur more than once.  A key is the sequence of its Unicode code points.
Member(key, val) == [key |-> key, val |-> val]
JObj(members) == [kind |-> "object", members |-> members]
\* A response body that is plain text, not JSON.
PlainText(s) == [kind |-> "text", s |-> s]

\* The json tags of the structs, as code points.
tagAnswers == <<97, 110, 115, 119, 101, 114, 115>>                \* answers
tagQuestionId == <<113, 117, 101, 115, 116, 105, 111, 110, 73, 100>>  \* questionId
tagValue == <<118, 97, 108, 117, 101>>                            \* value
tagId == <<105, 100>>                                             \* id
tagText == <<116, 101, 120, 116>>                                 \* text
tagType == <<116, 121, 112, 101>>                                 \* type

\* The key of the success envelope.
keyStatus == <<115, 116, 97, 116, 117, 115>>                      \* status

\* Other spellings of keys that clients may send.
keyAnswersCap == <<65, 110, 115, 119, 101, 114, 115>>             \* Answers
keyAnswersUpper == <<65, 78, 83, 87, 69, 82, 83>>                 \* ANSWERS
keyAnswersLongS == <<97, 110, 383, 119, 101, 114, 383>>           \* answers, each s as U+017F
keyQuestionIDCap == <<81, 117, 101, 115, 116, 105, 111, 110, 73, 68>>   \* QuestionID
keyQuestionIDMixed == <<113, 117, 101, 115, 116, 105, 111, 110, 73, 68>> \* questionID
keyQuestionIDUpper == <<81, 85, 69, 83, 84, 73, 79, 78, 73, 68>>  \* QUESTIONID
keyValueUpper == <<86, 65, 76, 85, 69>>                           \* VALUE
keyExtra == <<101, 120, 116, 114, 97>>                            \* extra
keyAnswersCyrillicA == <<1072, 110, 115, 119, 101, 114, 115>>     \* answers, its a as U+0430

\* ------------------------------------------------------------ Go values

\* A Go slice is nil or a (possibly empty) sequence of elements.
NilSlice == [isNil |-> TRUE, elems |-> <<>>]
MakeSlice(elems) == [isNil |-> FALSE, elems |-> elems]

Answer(qid, val) == [QuestionID |-> qid, Value |-> val]
ZeroAnswer == Answer(0, "")

AnswersRequest(slice) == [Answers |-> slice]
ZeroRequest == AnswersRequest(NilSlice)

Question(id, text, type) == [ID |-> id, Text |-> text, Type |-> type]

\* The catalog, in definition order.  The prompt texts are Cyrillic; each is
\* kept as the sequence of its Unicode code points.
questionsInit ==
  << Question(1, <<1050, 1072, 1082, 32, 1074, 1072, 1089, 32, 1079, 1086,
                   1074, 1091, 1090, 63>>, "text"),
     Question(2, <<1057, 1082, 1086, 1083, 1100, 1082, 1086, 32, 1074, 1072,
                   1084, 32, 1083, 1077, 1090, 63>>, "number"),
     Question(3, <<1042, 1072, 1096, 32, 1083, 1102, 1073, 1080, 1084, 1099,
                   1081, 32, 1103, 1079, 1099, 1082, 32, 1087, 1088, 1086,
                   1075, 1088, 1072, 1084, 1084, 1080, 1088, 1086, 1074, 1072,
                   1085, 1080, 1103, 63>>, "text"),
     Question(4, <<1043, 1086, 1090, 1086, 1074, 1099, 32, 1091, 1095, 1080,
                   1090, 1100, 32, 71, 111, 32, 1075, 1083, 1091, 1073, 1078,
                   1077, 63>>, "text") >>

\* ------------------------------------------------- json.Decoder.Decode
\* Decode reads one JSON value from the body, checks its syntax, and only
\* then stores it into req, which is zero before.  Every value is decoded
\* INTO its Go target: a value of the wrong JSON kind for the target is a
\* type error that leaves the target as it is, decoding goes on, and the
\* first such error is returned at the end.  A null leaves a struct, int or
\* string target as it is and sets a slice to nil.  The members of an object
\* are decoded one after the other in document order, so of two members that
\* reach the same field the later one decodes into what the earlier one
\* left.  A key reaches the field whose tag it equals or, failing that, the
\* field whose tag has the same folded name; other keys are skipped.

\* The runes outside ASCII that are not the smallest rune of their case
\* orbit (the set of runes that differ in letter case only), as rows
\* <<first, last, stride, delta>>: every stride-th rune from first to last
\* has the smallest rune of its orbit at distance delta.  U+017F (long s) and
\* U+212A (Kelvin sign) are the two whose orbit reaches into ASCII.
caseOrbitRanges ==
  << <<224, 246, 1, -32>>, <<248, 254, 1, -32>>, <<257, 303, 2, -1>>,
     <<307, 311, 2, -1>>, <<314, 328, 2, -1>>, <<331, 375, 2, -1>>,
     <<376, 376, 1, -121>>, <<378, 382, 2, -1>>, <<383, 383, 1, -300>>,
     <<387, 389, 2, -1>>, <<392, 392, 1, -1>>, <<396, 396, 1, -1>>,
     <<402, 402, 1, -1>>, <<409, 409, 1, -1>>, <<417, 421, 2, -1>>,
     <<424, 424, 1, -1>>, <<429, 429, 1, -1>>, <<432, 432, 1, -1>>,
     <<436, 438, 2, -1>>, <<441, 441, 1, -1>>, <<445, 445, 1, -1>>,
     <<453, 453, 1, -1>>, <<454, 454, 1, -2>>, <<456, 456, 1, -1>>,
     <<457, 457, 1, -2>>, <<459, 459, 1, -1>>, <<460, 460, 1, -2>>,
     <<462, 476, 2, -1>>, <<477, 477, 1, -79>>, <<479, 495, 2, -1>>,
     <<498, 498, 1, -1>>, <<499, 499, 1, -2>>, <<501, 501, 1, -1>>,
     <<502, 502, 1, -97>>, <<503, 503, 1, -56>>, <<505, 543, 2, -1>>,
     <<544, 544, 1, -130>>, <<547, 563, 2, -1>>, <<572, 572, 1, -1>>,
     <<573, 573, 1, -163>>, <<578, 578, 1, -1>>, <<579, 579, 1, -195>>,
     <<583, 591, 2, -1>>, <<595, 595, 1, -210>>, <<596, 596, 1, -206>>,
     <<598, 599, 1, -205>>, <<601, 601, 1, -202>>, <<603, 603, 1, -203>>,
     <<608, 608, 1, -205>>, <<611, 611, 1, -207>>, <<616, 616, 1, -209>>,
     <<617, 617, 1, -211>>, <<623, 623, 1, -211>>, <<626, 626, 1, -213>>,
     <<629, 629, 1, -214>>, <<640, 640, 1, -218>>, <<643, 643, 1, -218>>,
     <<648, 648, 1, -218>>, <<649, 649, 1, -69>>, <<650, 651, 1, -217>>,
     <<652, 652, 1, -71>>, <<658, 658, 1, -219>>, <<881, 883, 2, -1>>,
     <<887, 887, 1, -1>>, <<921, 921, 1, -84>>, <<924, 924, 1, -743>>,
     <<940, 940, 1, -38>>, <<941, 943, 1, -37>>, <<945, 952, 1, -32>>,
     <<953, 953, 1, -116>>, <<954, 955, 1, -32>>, <<956, 956, 1, -775>>,
     <<957, 961, 1, -32>>, <<962, 962, 1, -31>>, <<963, 971, 1, -32>>,
     <<972, 972, 1, -64>>, <<973, 974, 1, -63>>, <<976, 976, 1, -62>>,
     <<977, 977, 1, -57>>, <<981, 981, 1, -47>>, <<982, 982, 1, -54>>,
     <<983, 983, 1, -8>>, <<985, 1007, 2, -1>>, <<1008, 1008, 1, -86>>,
     <<1009, 1009, 1, -80>>, <<1011, 1011, 1, -116>>, <<1012, 1012, 1, -92>>,
     <<1013, 1013, 1, -96>>, <<1016, 1016, 1, -1>>, <<1017, 1017, 1, -7>>,
     <<1019, 1019, 1, -1>>, <<1021, 1023, 1, -130>>, <<1072, 1103, 1, -32>>,
     <<1104, 1119, 1, -80>>, <<1121, 1153, 2, -1>>, <<1163, 1215, 2, -1>>,
     <<1218, 1230, 2, -1>>, <<1231, 1231, 1, -15>>, <<1233, 1327, 2, -1>>,
     <<1377, 1414, 1, -48>>, <<5112, 5117, 1, -8>>, <<7296, 7296, 1, -6254>>,
     <<7297, 7297, 1, -6253>>, <<7298, 7298, 1, -6244>>,
     <<7299, 7300, 1, -6242>>, <<7301, 7301, 1, -6243>>,
     <<7302, 7302, 1, -6236>>, <<7303, 7303, 1, -6181>>,
     <<7312, 7354, 1, -3008>>, <<7357, 7359, 1, -3008>>,
     <<7681, 7829, 2, -1>>, <<7835, 7835, 1, -59>>, <<7838, 7838, 1, -7615>>,
     <<7841, 7935, 2, -1>>, <<7944, 7951, 1, -8>>, <<7960, 7965, 1, -8>>,
     <<7976, 7983, 1, -8>>, <<7992, 7999, 1, -8>>, <<8008, 8013, 1, -8>>,
     <<8025, 8031, 2, -8>>, <<8040, 8047, 1, -8>>, <<8072, 8079, 1, -8>>,
     <<8088, 8095, 1, -8>>, <<8104, 8111, 1, -8>>, <<8120, 8121, 1, -8>>,
     <<8122, 8123, 1, -74>>, <<8124, 8124, 1, -9>>, <<8126, 8126, 1, -7289>>,
     <<8136, 8139, 1, -86>>, <<8140, 8140, 1, -9>>, <<8152, 8153, 1, -8>>,
     <<8154, 8155, 1, -100>>, <<8168, 8169, 1, -8>>, <<8170, 8171, 1, -112>>,
     <<8172, 8172, 1, -7>>, <<8184, 8185, 1, -128>>, <<8186, 8187, 1, -126>>,
     <<8188, 8188, 1, -9>>, <<8486, 8486, 1, -7549>>,
     <<8490, 8490, 1, -8415>>, <<8491, 8491, 1, -8294>>,
     <<8526, 8526, 1, -28>>, <<8560, 8575, 1, -16>>, <<8580, 8580, 1, -1>>,
     <<9424, 9449, 1, -26>>, <<11312, 11359, 1, -48>>,
     <<11361, 11361, 1, -1>>, <<11362, 11362, 1, -10743>>,
     <<11363, 11363, 1, -3814>>, <<11364, 11364, 1, -10727>>,
     <<11365, 11365, 1, -10795>>, <<11366, 11366, 1, -10792>>,
     <<11368, 11372, 2, -1>>, <<11373, 11373, 1, -10780>>,
     <<11374, 11374, 1, -10749>>, <<11375, 11375, 1, -10783>>,
     <<11376, 11376, 1, -10782>>, <<11379, 11379, 1, -1>>,
     <<11382, 11382, 1, -1>>, <<11390, 11391, 1, -10815>>,
     <<11393, 11491, 2, -1>>, <<11500, 11502, 2, -1>>,
     <<11507, 11507, 1, -1>>, <<11520, 11557, 1, -7264>>,
     <<11559, 11559, 1, -7264>>, <<11565, 11565, 1, -7264>>,
     <<42561, 42569, 2, -1>>, <<42570, 42570, 1, -35266>>,
     <<42571, 42571, 1, -35267>>, <<42573, 42605, 2, -1>>,
     <<42625, 42651, 2, -1>>, <<42787, 42799, 2, -1>>,
     <<42803, 42863, 2, -1>>, <<42874, 42876, 2, -1>>,
     <<42877, 42877, 1, -35332>>, <<42879, 42887, 2, -1>>,
     <<42892, 42892, 1, -1>>, <<42893, 42893, 1, -42280>>,
     <<42897, 42899, 2, -1>>, <<42903, 42921, 2, -1>>,
     <<42922, 42922, 1, -42308>>, <<42923, 42923, 1, -42319>>,
     <<42924, 42924, 1, -42315>>, <<42925, 42925, 1, -42305>>,
     <<42926, 42926, 1, -42308>>, <<42928, 42928, 1, -42258>>,
     <<42929, 42929, 1, -42282>>, <<42930, 42930, 1, -42261>>,
     <<42933, 42947, 2, -1>>, <<42948, 42948, 1, -48>>,
     <<42949, 42949, 1, -42307>>, <<42950, 42950, 1, -35384>>,
     <<42952, 42954, 2, -1>>, <<42961, 42961, 1, -1>>,
     <<42967, 42969, 2, -1>>, <<42998, 42998, 1, -1>>,
     <<43859, 43859, 1, -928>>, <<43888, 43967, 1, -38864>>,
     <<65345, 65370, 1, -32>>, <<66600, 66639, 1, -40>>,
     <<66776, 66811, 1, -40>>, <<66967, 66977, 1, -39>>,
     <<66979, 66993, 1, -39>>, <<66995, 67001, 1, -39>>,
     <<67003, 67004, 1, -39>>, <<68800, 68850, 1, -64>>,
     <<71872, 71903, 1, -32>>, <<93792, 93823, 1, -32>>,
     <<125218, 125251, 1, -34>> >>

\* The fold of one rune: an ASCII lower-case letter becomes its upper-case
\* letter and every other ASCII rune stays; a rune outside ASCII becomes the
\* smallest rune of its case orbit.
foldRune(r) ==
  IF r < 128 THEN (IF r \in 97..122 THEN r - 32 ELSE r)
  ELSE LET rows == SelectSeq(caseOrbitRanges,
                             LAMBDA row : /\ row[1] <= r
                                          /\ r <= row[2]
                                          /\ (r - row[1]) % row[3] = 0)
       IN  IF rows = <<>> THEN r ELSE r + rows[1][4]

foldName(k) == [i \in 1..Len(k) |-> foldRune(k[i])]

\* The field (by its tag) that a key decodes into: a set of one tag, or the
\* empty set for a key that is skipped.
fieldOf(tags, key) ==
  IF key \in tags THEN {key}
  ELSE {t \in tags : foldName(t) = foldName(key)}

\* decodeInt as it would be were the field tagged `,string`: a quoted number
\* is taken too.
decodeIntQuoted(cur, j) ==
  CASE j.kind = "null" -> [err |-> FALSE, val |-> cur]
    [] j.kind = "number" /\ j.form = "int" -> [err |-> FALSE, val |-> j.n]
    [] j.kind = "string" -> [err |-> FALSE, val |-> 1]
    [] OTHER -> [err |-> TRUE, val |-> cur]

\* int target (Answer.QuestionID) holding cur
decodeInt(cur, j) ==
  CASE j.kind = "null" -> [err |-> FALSE, val |-> cur]
    [] j.kind = "number" /\ j.form = "int" -> [err |-> FALSE, val |-> j.n]
    [] OTHER -> [err |-> TRUE, val |-> cur]

\* string target (Answer.Value) holding cur
decodeString(cur, j) ==
  CASE j.kind = "null" -> [err |-> FALSE, val |-> cur]
    [] j.kind = "string" -> [err |-> FALSE, val |-> j.s]
    [] OTHER -> [err |-> TRUE, val |-> cur]

\* The outcome of decoding further into a target after the outcome d of an
\* earlier step, an error having been saved before (e) or not.
savedErr(e, d) == [err |-> e \/ d.err, val |-> d.val]

\* One member, whose key reaches the fields f and whose value is j, decoded
\* into the Answer cur.
answerMember(cur, f, j) ==
  IF tagQuestionId \in f
  THEN [err |-> decodeInt(cur.QuestionID, j).err,
        val |-> [cur EXCEPT !.QuestionID = decodeInt(cur.QuestionID, j).val]]
  ELSE IF tagValue \in f
  THEN [err |-> decodeString(cur.Value, j).err,
        val |-> [cur EXCEPT !.Value = decodeString(cur.Value, j).val]]
  ELSE [err |-> FALSE, val |-> cur]

\* The members of an object decoded, in order, into the Answer acc.val.
RECURSIVE objectAnswer(_, _)
objectAnswer(acc, members) ==
  IF members = <<>> THEN acc
  ELSE objectAnswer(
         savedErr(acc.err,
                  answerMember(acc.val,
                               fieldOf({tagQuestionId, tagValue}, Head(members).key),
                               Head(members).val)),
         Tail(members))

\* struct target Answer holding cur
decodeAnswer(cur, j) ==
  CASE j.kind = "null" -> [err |-> FALSE, val |-> cur]
    [] j.kind = "object" -> objectAnswer([err |-> FALSE, val |-> cur], j.members)
    [] OTHER -> [err |-> TRUE, val |-> cur]

\* While Decode runs, a slice is kept with its backing array: spare holds
\* what lies in the array behind the slice's last element (the elements an
\* earlier, longer array of the same body left there).
Backed(slice, spare) ==
  [isNil |-> slice.isNil, elems |-> slice.elems, spare |-> spare]
Unbacked(b) == [isNil |-> b.isNil, elems |-> b.elems]

\* The elements of an array decoded into the places of the backing array
\* old: the i-th element into the i-th place, with whatever that place
\* holds; places never written hold the zero Answer.
arrayElements(old, elems) ==
  [i \in 1..Len(elems) |->
     decodeAnswer(IF i <= Len(old) THEN old[i] ELSE ZeroAnswer, elems[i])]

\* The slice after the elements were decoded with the outcomes ds: it is cut
\* to the array's length, and an array without elements makes a fresh empty
\* slice.
arraySlice(old, ds) ==
  [err |-> \E i \in 1..Len(ds) : ds[i].err,
   val |-> IF Len(ds) = 0 THEN Backed(MakeSlice(<<>>), <<>>)
           ELSE Backed(MakeSlice([i \in 1..Len(ds) |-> ds[i].val]),
                       SubSeq(old, Len(ds) + 1, Len(old)))]

\* slice target []Answer (AnswersRequest.Answers) holding cur
decodeAnswers(cur, j) ==
  CASE j.kind = "null" -> [err |-> FALSE, val |-> Backed(NilSlice, <<>>)]
    [] j.kind = "array" ->
         arraySlice(cur.elems \o cur.spare,
                    arrayElements(cur.elems \o cur.spare, j.elems))
    [] OTHER -> [err |-> TRUE, val |-> cur]

\* One member, whose key reaches the fields f and whose value is j, decoded
\* into the AnswersRequest whose Answers is cur.
requestMember(cur, f, j) ==
  IF f # {} THEN decodeAnswers(cur, j) ELSE [err |-> FALSE, val |-> cur]

\* The members of an object decoded, in order, into the AnswersRequest whose
\* Answers is acc.val.
RECURSIVE objectRequest(_, _)
objectRequest(acc, members) ==
  IF members = <<>> THEN acc
  ELSE objectRequest(
         savedErr(acc.err,
                  requestMember(acc.val,
                                fieldOf({tagAnswers}, Head(members).key),
                                Head(members).val)),
         Tail(members))

\* The request the handler is left with after the outcome a of the decoder.
decodedRequest(a) == [err |-> a.err, req |-> AnswersRequest(Unbacked(a.val))]

\* struct target AnswersRequest: the whole of Decode(&req), req zero before.
Decode(body) ==
  CASE body.kind \in {"malformed", "empty"} ->
         [err |-> TRUE, req |-> ZeroRequest]
    [] body.kind = "null" -> [err |-> FALSE, req |-> ZeroRequest]
    [] body.kind = "object" ->
         decodedRequest(objectRequest([err |-> FALSE,
                                       val |-> Backed(NilSlice, <<>>)],
                                      body.members))
    [] OTHER -> [err |-> TRUE, req |-> ZeroRequest]

\* ------------------------------------------------- json.Encoder.Encode
\* Encode turns the payload handed to writeJSON into JSON: the catalog into
\* an array of objects whose members are the fields in declaration order
\* under their json tags, a map[string]string into an object whose members
\* are the map's entries in the order of their keys.

encodeQuestion(q) ==
  JObj(<<Member(tagId, JNum("int", q.ID)), Member(tagText, JStr(q.Text)),
         Member(tagType, JStr(q.Type))>>)

\* The order of strings: by the first code point that differs, a proper
\* prefix first.
lexLess(a, b) ==
  \/ Len(a) < Len(b) /\ SubSeq(b, 1, Len(a)) = a
  \/ \E i \in 1..Len(a) :
       /\ i <= Len(b)
       /\ a[i] < b[i]
       /\ SubSeq(a, 1, i - 1) = SubSeq(b, 1, i - 1)

RECURSIVE sortedKeys(_)
sortedKeys(S) ==
  IF S = {} THEN <<>>
  ELSE LET first == CHOOSE k \in S : \A o \in S \ {k} : lexLess(k, o)
       IN  <<first>> \o sortedKeys(S \ {first})

Encode(payload) ==
  CASE payload.type = "[]Question" ->
         JArr([i \in 1..Len(payload.val) |-> encodeQuestion(payload.val[i])])
    [] payload.type = "map[string]string" ->
         LET keys == sortedKeys(DOMAIN payload.val)
         IN  JObj([i \in 1..Len(keys) |->
                     Member(keys[i], JStr(payload.val[keys[i]]))])

\* ------------------------------------------------------- request bodies

SeqsUpTo(S, n) == UNION {[1..k -> S] : k \in 0..n}

\* JSON values met under the "questionId" key and under the "value" key.
\* The literal outside the range of int stands for 9223372036854775808; its
\* value is never stored, so its n is left 0.
QidJ ==
  {JNull, JNum("int", 1), JNum("int", 7), JNum("frac", 1), JNum("big", 0),
   JStr("1")}
ValJ == {JNull, JStr("a"), JStr("b"), JNum("int", 1)}

QidMembers == {<<>>} \cup {<<Member(tagQuestionId, j)>> : j \in QidJ}
ValMembers == {<<>>} \cup {<<Member(tagValue, j)>> : j \in ValJ}

\* Elements of an "answers" array: objects with either key present or
\* missing, and values that are no object at all.
Elements ==
  {JObj(q \o v) : q \in QidMembers, v \in ValMembers}
    \cup {JNull, JNum("int", 1), JStr("a")}

\* The element the bundled client sends for one question/value pair.
PairJ(qid, val) ==
  JObj(<<Member(tagQuestionId, JNum("int", qid)), Member(tagValue, JStr(val))>>)

\* Elements whose keys are spelled in another letter case, come in another
\* order, come with a key that matches no field, or come twice.
OtherElements ==
  {JObj(<<Member(keyQuestionIDMixed, JNum("int", 7)), Member(tagValue, JStr("a"))>>),
   JObj(<<Member(keyQuestionIDUpper, JStr("1"))>>),
   JObj(<<Member(keyValueUpper, JNum("int", 1))>>),
   JObj(<<Member(keyValueUpper, JStr("b"))>>),
   JObj(<<Member(tagQuestionId, JStr("1")), Member(keyQuestionIDCap, JNum("int", 7))>>),
   JObj(<<Member(tagQuestionId, JNum("int", 1)), Member(tagQuestionId, JNum("int", 7))>>),
   JObj(<<Member(tagQuestionId, JNum("int", 7)), Member(tagQuestionId, JNull)>>),
   JObj(<<Member(tagQuestionId, JNum("int", 7)), Member(tagQuestionId, JNull),
          Member(tagQuestionId, JNum("big", 0))>>),
   JObj(<<Member(tagValue, JStr("a")), Member(tagQuestionId, JNum("int", 1))>>),
   JObj(<<Member(keyExtra, JStr("a")), Member(tagValue, JStr("b"))>>)}

\* Values met under the top-level "answers" key.
AnswersJ ==
  {JNull, JNum("int", 1), JStr("a"), JObj(<<>>)}
    \cup {JArr(es) : es \in SeqsUpTo(Elements, MaxBatchLen)}
    \cup {JArr(<<e>>) : e \in OtherElements}

\* Bodies in which more than one member reaches the Answers field, or a
\* member that reaches it follows one that does not.
RepeatedBodies ==
  {JObj(<<Member(tagAnswers, JNum("int", 1)), Member(keyAnswersCap, JArr(<<>>))>>),
   JObj(<<Member(tagAnswers, JArr(<<>>)), Member(keyAnswersCap, JNum("int", 1))>>),
   JObj(<<Member(tagAnswers, JArr(<<PairJ(1, "a")>>)),
          Member(tagAnswers, JArr(<<JObj(<<Member(tagValue, JStr("b"))>>)>>))>>),
   JObj(<<Member(tagAnswers, JArr(<<PairJ(1, "a")>>)), Member(tagAnswers, JNull)>>),
   JObj(<<Member(tagAnswers, JNull), Member(tagAnswers, JArr(<<>>))>>),
   JObj(<<Member(tagAnswers, JArr(<<PairJ(1, "a")>>)),
          Member(tagAnswers, JArr(<<>>)),
          Member(tagAnswers, JArr(<<JObj(<<>>)>>))>>),
   JObj(<<Member(tagAnswers, JArr(<<PairJ(1, "a"), PairJ(7, "b")>>)),
          Member(tagAnswers, JArr(<<JObj(<<>>)>>)),
          Member(tagAnswers, JArr(<<JObj(<<>>), JObj(<<>>)>>))>>),
   JObj(<<Member(keyExtra, JNum("int", 1)), Member(tagAnswers, JArr(<<PairJ(1, "a")>>))>>)}

\* Every body class of POST /answers: no JSON, no bytes, each JSON kind at
\* the top level, objects without the key, with an unknown key, with the key
\* bound to each value above, with the key in another letter case, and with
\* the key repeated.
AllBodies ==
  {Malformed, EmptyBody, JNull, JBool, JNum("int", 1), JStr("a"), JArr(<<>>),
   JObj(<<>>), JObj(<<Member(keyExtra, JNum("int", 1))>>),
   JObj(<<Member(keyAnswersCyrillicA, JNum("int", 1))>>)}
    \cup {JObj(<<Member(tagAnswers, a)>>) : a \in AnswersJ}
    \cup {JObj(<<Member(k, a)>>) :
            k \in {keyAnswersCap, keyAnswersUpper, keyAnswersLongS},
            a \in {JNull, JArr(<<>>), JNum("int", 1), JArr(<<PairJ(1, "a")>>)}}
    \cup RepeatedBodies

\* The body the bundled client sends for the given question/value pairs.
ClientBody(pairs) ==
  JObj(<<Member(tagAnswers,
                JArr([i \in 1..Len(pairs) |-> PairJ(pairs[i][1], pairs[i][2])]))>>)

\* The bodies of the concurrent runs: text that is no JSON, a submission
\* whose questionId is a string (a type error that leaves a partly decoded
\* batch), the empty submission, and single-answer submissions that differ
\* pairwise.
SmallBodies ==
  {Malformed,
   JObj(<<Member(tagAnswers,
                 JArr(<<JObj(<<Member(tagQuestionId, JStr("1")),
                               Member(tagValue, JStr("a"))>>)>>))>>),
   ClientBody(<<>>), ClientBody(<< <<1, "a">> >>),
   ClientBody(<< <<1, "b">> >>), ClientBody(<< <<7, "a">> >>)}

\* ----------------------------------------------------------------- state

VARIABLES
  questions,  \* the package-level catalog
  answers,    \* store.answers: the stored batches, oldest first
  mu,         \* store.mu: TRUE while the mutex is locked
  pc,         \* pc[w]: where worker w stands in its handler
  method,     \* method[w]: the route worker w serves
  body,       \* body[w]: the body of w's request, as the client sent it
  req,        \* req[w]: the handler's local req
  err,        \* err[w]: the handler's local err, the result of Decode
  saveArg,    \* saveArg[w]: the parameter req of w's call of save
  appended,   \* appended[w]: the slice value append built in w's call
  resp,       \* resp[w]: what w's handler wrote to its ResponseWriter
  logged,     \* logged[w]: TRUE once writeJSON logged a write error for w
  calls,      \* calls[w]: how many times w's handler called save
  slot,       \* slot[w]: the index at which w's append landed, 0 if none
  pred,       \* pred[w]: the workers whose save had returned when w called save
  holders     \* the workers whose Lock has returned and whose Unlock has not

vars == <<questions, answers, mu, pc, method, body, req, err, saveArg,
          appended, resp, logged, calls, slot, pred, holders>>

NoResponse == [status |-> 0, ctype |-> "", body |-> EmptyBody]

OkEnvelope == [type |-> "map[string]string", val |-> (keyStatus :> "ok")]

Init ==
  /\ questions = questionsInit
  /\ answers = <<>>
  /\ mu = FALSE
  /\ pc = [w \in Workers |-> "idle"]
  /\ method = [w \in Workers |-> ""]
  /\ body = [w \in Workers |-> EmptyBody]
  /\ req = [w \in Workers |-> ZeroRequest]
  /\ err = [w \in Workers |-> FALSE]
  /\ saveArg = [w \in Workers |-> ZeroRequest]
  /\ appended = [w \in Workers |-> <<>>]
  /\ resp = [w \in Workers |-> NoResponse]
  /\ logged = [w \in Workers |-> FALSE]
  /\ calls = [w \in Workers |-> 0]
  /\ slot = [w \in Workers |-> 0]
  /\ pred = [w \in Workers |-> {}]
  /\ holders = {}

\* Whether w's call of save has returned to the handler.
saveReturned(w) == calls[w] > 0 /\ pc[w] \in {"Saved", "Done"}

\* --------------------------------------------------------------- writers

\* writeJSON: sets the content type, writes the status line, then encodes
\* the payload into the writer.  The writer may fail the write; the failure
\* is logged and nothing else happens.
writeJSON(w, status, payload) ==
  /\ resp' = [resp EXCEPT ![w] = [status |-> status,
                                  ctype |-> "application/json",
                                  body |-> Encode(payload)]]
  /\ \E failed \in BOOLEAN : logged' = [logged EXCEPT ![w] = failed]

\* http.Error: plain-text content type, the status line, the message and a
\* line break.
httpError(w, msg, status) ==
  resp' = [resp EXCEPT ![w] = [status |-> status,
                               ctype |-> "text/plain; charset=utf-8",
                               body |-> PlainText(msg \o "\n")]]

\* ---------------------------------------------------------------- actions

\* A request arrives and the mux hands it to worker w.
Receive(w, bodies) ==
  /\ pc[w] = "idle"
  /\ \/ /\ method' = [method EXCEPT ![w] = "GET /questions"]
        /\ UNCHANGED body
     \/ /\ method' = [method EXCEPT ![w] = "POST /answers"]
        /\ \E b \in bodies : body' = [body EXCEPT ![w] = b]
  /\ pc' = [pc EXCEPT ![w] = "Received"]
  /\ UNCHANGED <<questions, answers, mu, req, err, saveArg, appended, resp,
                 logged, calls, slot, pred, holders>>

\* GetQuestions as it would be were the questions that already have a stored
\* answer left out.
GetQuestionsUnanswered(w) ==
  /\ pc[w] = "Received"
  /\ method[w] = "GET /questions"
  /\ LET ids == UNION {{answers[i].Answers.elems[k].QuestionID :
                          k \in 1..Len(answers[i].Answers.elems)} :
                       i \in 1..Len(answers)}
         open(q) == q.ID \notin ids
     IN  writeJSON(w, StatusOK,
                   [type |-> "[]Question", val |-> SelectSeq(questions, open)])
  /\ pc' = [pc EXCEPT ![w] = "Done"]
  /\ UNCHANGED <<questions, answers, mu, method, body, req, err, saveArg,
                 appended, calls, slot, pred, holders>>

\* GetQuestions as it would be were the catalog read under the store's
\* mutex: the handler waits while the mutex is locked.
GetQuestionsLocked(w) ==
  /\ pc[w] = "Received"
  /\ method[w] = "GET /questions"
  /\ ~mu
  /\ writeJSON(w, StatusOK, [type |-> "[]Question", val |-> questions])
  /\ pc' = [pc EXCEPT ![w] = "Done"]
  /\ UNCHANGED <<questions, answers, mu, method, body, req, err, saveArg,
                 appended, calls, slot, pred, holders>>

\* GET /questions: the whole handler.
GetQuestions(w) ==
  /\ pc[w] = "Received"
  /\ method[w] = "GET /questions"
  /\ writeJSON(w, StatusOK, [type |-> "[]Question", val |-> questions])
  /\ pc' = [pc EXCEPT ![w] = "Done"]
  /\ UNCHANGED <<questions, answers, mu, method, body, req, err, saveArg,
                 appended, calls, slot, pred, holders>>

\* POST /answers: var req AnswersRequest, and the decoder is set up.
StartDecode(w) ==
  /\ pc[w] = "Received"
  /\ method[w] = "POST /answers"
  /\ req' = [req EXCEPT ![w] = ZeroRequest]
  /\ pc' = [pc EXCEPT ![w] = "Decoding"]
  /\ UNCHANGED <<questions, answers, mu, method, body, err, saveArg, appended,
                 resp, logged, calls, slot, pred, holders>>

\* afterDecode as it would be were the error of Decode ignored.
afterDecodeIgnoreErr(e) == "Decoded"

\* Where the handler goes after Decode: into the error branch or on to save.
afterDecode(e) == IF e THEN "DecodeFailed" ELSE "Decoded"

\* err := Decode(&req): the read of the body has ended and Decode returns.
DecodeBody(w) ==
  /\ pc[w] = "Decoding"
  /\ LET d == Decode(body[w])
     IN  /\ req' = [req EXCEPT ![w] = d.req]
         /\ err' = [err EXCEPT ![w] = d.err]
         /\ pc' = [pc EXCEPT ![w] = afterDecode(d.err)]
  /\ UNCHANGED <<questions, answers, mu, method, body, saveArg, appended,
                 resp, logged, calls, slot, pred, holders>>

\* The error branch: http.Error and return.
Reject(w) ==
  /\ pc[w] = "DecodeFailed"
  /\ httpError(w, "invalid JSON payload", StatusBadRequest)
  /\ pc' = [pc EXCEPT ![w] = "Done"]
  /\ UNCHANGED <<questions, answers, mu, method, body, req, err, saveArg,
                 appended, logged, calls, slot, pred, holders>>

\* CallSave as it would be were the batch handed on without its last answer.
CallSaveDropLast(w) ==
  /\ pc[w] = "Decoded"
  /\ saveArg' = [saveArg EXCEPT ![w] =
        AnswersRequest([req[w].Answers EXCEPT
          !.elems = SubSeq(@, 1, Len(@) - 1)])]
  /\ calls' = [calls EXCEPT ![w] = @ + 1]
  /\ pred' = [pred EXCEPT ![w] = {u \in Workers : saveReturned(u)}]
  /\ pc' = [pc EXCEPT ![w] = "Lock"]
  /\ UNCHANGED <<questions, answers, mu, method, body, req, err, appended,
                 resp, logged, slot, holders>>

\* CallSave as it would be were answers to unknown questions filtered out.
CallSaveKnownOnly(w) ==
  /\ pc[w] = "Decoded"
  /\ LET known(a) == \E i \in 1..Len(questions) : questions[i].ID = a.QuestionID
     IN  saveArg' = [saveArg EXCEPT ![w] =
           AnswersRequest([req[w].Answers EXCEPT !.elems = SelectSeq(@, known)])]
  /\ calls' = [calls EXCEPT ![w] = @ + 1]
  /\ pred' = [pred EXCEPT ![w] = {u \in Workers : saveReturned(u)}]
  /\ pc' = [pc EXCEPT ![w] = "Lock"]
  /\ UNCHANGED <<questions, answers, mu, method, body, req, err, appended,
                 resp, logged, slot, holders>>

\* store.save(req) is called: the batch is copied into save's parameter.
CallSave(w) ==
  /\ pc[w] = "Decoded"
  /\ saveArg' = [saveArg EXCEPT ![w] = req[w]]
  /\ calls' = [calls EXCEPT ![w] = @ + 1]
  /\ pred' = [pred EXCEPT ![w] = {u \in Workers : saveReturned(u)}]
  /\ pc' = [pc EXCEPT ![w] = "Lock"]
  /\ UNCHANGED <<questions, answers, mu, method, body, req, err, appended,
                 resp, logged, slot, holders>>

\* Lock as it would be were the mutex never waited for.
LockNoWait(w) ==
  /\ pc[w] = "Lock"
  /\ mu' = TRUE
  /\ holders' = holders \cup {w}
  /\ pc' = [pc EXCEPT ![w] = "Append"]
  /\ UNCHANGED <<questions, answers, method, body, req, err, saveArg,
                 appended, resp, logged, calls, slot, pred>>

\* s.mu.Lock(): blocks while the mutex is locked.
Lock(w) ==
  /\ pc[w] = "Lock"
  /\ ~mu
  /\ mu' = TRUE
  /\ holders' = holders \cup {w}
  /\ pc' = [pc EXCEPT ![w] = "Append"]
  /\ UNCHANGED <<questions, answers, method, body, req, err, saveArg,
                 appended, resp, logged, calls, slot, pred>>

\* append as it would be were the batch put in front.
appendFront(slice, batch) == <<batch>> \o slice

\* append as it would be were a batch without answers dropped.
appendSkipEmpty(slice, batch) ==
  IF Len(batch.Answers.elems) = 0 THEN slice ELSE Append(slice, batch)

\* append(s.answers, req): the slice with the batch added at its end.
append(slice, batch) == Append(slice, batch)

\* The right-hand side of the assignment: s.answers is read and the new
\* slice value is built.
AppendBatch(w) ==
  /\ pc[w] = "Append"
  /\ appended' = [appended EXCEPT ![w] = append(answers, saveArg[w])]
  /\ pc' = [pc EXCEPT ![w] = "Store"]
  /\ UNCHANGED <<questions, answers, mu, method, body, req, err, saveArg,
                 resp, logged, calls, slot, pred, holders>>

\* The assignment itself: s.answers = <the new slice value>.
StoreSlice(w) ==
  /\ pc[w] = "Store"
  /\ answers' = appended[w]
  /\ slot' = [slot EXCEPT ![w] = Len(appended[w])]
  /\ pc' = [pc EXCEPT ![w] = "Unlock"]
  /\ UNCHANGED <<questions, mu, method, body, req, err, saveArg, appended,
                 resp, logged, calls, pred, holders>>

\* Unlock as it would be were the unlock not deferred: save returns with the
\* mutex still locked.
UnlockForgotten(w) ==
  /\ pc[w] = "Unlock"
  /\ appended' = [appended EXCEPT ![w] = <<>>]
  /\ pc' = [pc EXCEPT ![w] = "Saved"]
  /\ UNCHANGED <<questions, answers, mu, method, body, req, err, saveArg,
                 resp, logged, calls, slot, pred, holders>>

\* The deferred s.mu.Unlock(), and save returns.
Unlock(w) ==
  /\ pc[w] = "Unlock"
  /\ mu' = FALSE
  /\ holders' = holders \ {w}
  /\ appended' = [appended EXCEPT ![w] = <<>>]
  /\ pc' = [pc EXCEPT ![w] = "Saved"]
  /\ UNCHANGED <<questions, answers, method, body, req, err, saveArg, resp,
                 logged, calls, slot, pred>>

\* RespondOK as it would be were the batch taken back out of the store when
\* the response cannot be written.
RespondOKRollback(w) ==
  /\ pc[w] = "Saved"
  /\ writeJSON(w, StatusOK, OkEnvelope)
  /\ answers' = IF logged'[w] THEN SubSeq(answers, 1, Len(answers) - 1)
                ELSE answers
  /\ pc' = [pc EXCEPT ![w] = "Done"]
  /\ UNCHANGED <<questions, mu, method, body, req, err, saveArg,
                 appended, calls, slot, pred, holders>>

\* writeJSON(w, http.StatusOK, {"status": "ok"}) and the handler returns.
RespondOK(w) ==
  /\ pc[w] = "Saved"
  /\ writeJSON(w, StatusOK, OkEnvelope)
  /\ pc' = [pc EXCEPT ![w] = "Done"]
  /\ UNCHANGED <<questions, answers, mu, method, body, req, err, saveArg,
                 appended, calls, slot, pred, holders>>

\* One step of worker w's handler.
Handle(w) ==
  \/ GetQuestions(w)
  \/ StartDecode(w)
  \/ DecodeBody(w)
  \/ Reject(w)
  \/ CallSave(w)
  \/ Lock(w)
  \/ AppendBatch(w)
  \/ StoreSlice(w)
  \/ Unlock(w)
  \/ RespondOK(w)

\* ---------------------------------------------------------- specifications

\* The server under concurrent load: every worker serves one request.
Next == \E w \in Workers : Receive(w, SmallBodies) \/ Handle(w)

Spec == Init /\ [][Next]_vars

\* The Go scheduler runs every goroutine that can run: a handler step that
\* stays possible is taken in the end.  Decode is the one step that waits for
\* the client: it returns when the body's first JSON value, the end of the
\* body or a read error has come in, and the server sets no read timeout.
\* Whether and when a request arrives, and whether its body ever does, is up
\* to the clients, so Receive and DecodeBody are under no such obligation.
Fairness == \A w \in Workers : WF_vars(pc[w] # "Decoding" /\ Handle(w))

\* Progress of a handler depends on its body only through the outcome of
\* Decode: one body that fails to decode and one that decodes stand for all.
FairBodies == {Malformed, ClientBody(<<>>)}

NextFair == \E w \in Workers : Receive(w, FairBodies) \/ Handle(w)

\* The server under concurrent load and fair scheduling of the workers.
SpecFair == Init /\ [][NextFair]_vars /\ Fairness

\* One request at a time, over every body class: the handler as a function
\* of the request body.
NextDecode == Receive(1, AllBodies) \/ Handle(1)

SpecDecode == Init /\ [][NextDecode]_vars

\* ------------------------------------------------------------ properties

IsPrefix(s, t) == Len(s) <= Len(t) /\ SubSeq(t, 1, Len(s)) = s

isPost(w) == method[w] = "POST /answers"
isGet(w) == method[w] = "GET /questions"

\* Worker w's handler has got its result from Decode.
decoded(w) == isPost(w) /\ pc[w] \notin {"idle", "Received", "Decoding"}

\* The responses of the POST handler.
OkResponse ==
  [status |-> StatusOK, ctype |-> "application/json",
   body |-> JObj(<<Member(keyStatus, JStr("ok"))>>)]
BadRequestResponse ==
  [status |-> StatusBadRequest, ctype |-> "text/plain; charset=utf-8",
   body |-> PlainText("invalid JSON payload\n")]

\* Every worker called save with a single-answer batch, the batches differ
\* pairwise, and every call has returned.
AllSavedDistinctSingles ==
  /\ \A w \in Workers : saveReturned(w) /\ Len(saveArg[w].Answers.elems) = 1
  /\ \A u, w \in Workers : u # w => saveArg[u] # saveArg[w]

\* C1: once NumWorkers concurrent calls of save, each with its own
\* single-answer batch, have all returned, the store holds exactly NumWorkers
\* batches and each submitted batch is in it exactly once.
C1_NoLossUnderConcurrency ==
  AllSavedDistinctSingles =>
    /\ Len(answers) = NumWorkers
    /\ \A w \in Workers :
         Cardinality({i \in 1..Len(answers) : answers[i] = saveArg[w]}) = 1

C1_Witness == AllSavedDistinctSingles /\ Len(answers) = NumWorkers

\* C2: a POST /answers whose body fails to decode never calls save, takes no
\* step that changes the store or its mutex, and is answered 400 with the
\* plain-text message, never the ok envelope.
C2_DecodeFailureAtomic ==
  /\ [](\A w \in Workers :
          (decoded(w) /\ Decode(body[w]).err) =>
            /\ calls[w] = 0
            /\ slot[w] = 0
            /\ pc[w] \in {"DecodeFailed", "Done"}
            /\ pc[w] = "Done" => resp[w] = BadRequestResponse)
  /\ [][\A w \in Workers :
          (isPost(w) /\ Decode(body[w]).err /\ Handle(w)) =>
            UNCHANGED <<answers, mu>>]_vars

\* A failed request is finished while the store holds a batch of another.
C2_Witness ==
  \E w \in Workers :
    /\ isPost(w) /\ Decode(body[w]).err /\ pc[w] = "Done"
    /\ req[w] # ZeroRequest
    /\ Len(answers) > 0

\* C3: a POST /answers whose body decodes calls save at most once, and once
\* it is finished exactly once, with the whole decoded batch; a response is
\* written only when that call has returned and the batch is in the store.
C3_OneSaveThenOk ==
  \A w \in Workers :
    (decoded(w) /\ ~Decode(body[w]).err) =>
      /\ calls[w] <= 1
      /\ calls[w] = 1 => saveArg[w] = Decode(body[w]).req
      /\ pc[w] = "Done" => calls[w] = 1 /\ resp[w] = OkResponse
      /\ resp[w] # NoResponse =>
           /\ saveReturned(w)
           /\ slot[w] \in 1..Len(answers)
           /\ answers[slot[w]] = Decode(body[w]).req

C3_Witness ==
  \E w \in Workers :
    /\ isPost(w) /\ pc[w] = "Done" /\ resp[w] = OkResponse
    /\ calls[w] = 1
    /\ Len(answers[slot[w]].Answers.elems) = MaxBatchLen

\* C4: the store starts empty and every step leaves the stored sequence a
\* prefix of the next one: nothing stored is changed, removed or moved.
C4_AppendOnly ==
  /\ answers = <<>>
  /\ [][IsPrefix(answers, answers')]_vars

C4_Witness == Len(answers) = NumWorkers

\* C5 as claimed: whenever a call of save has returned, its batch is the last
\* element of the stored sequence.
C5_LastAfterReturn ==
  \A w \in Workers : saveReturned(w) => answers[Len(answers)] = saveArg[w]

\* C5, amended: once a call of save has returned, its batch is in the stored
\* sequence at the index it was appended at; it is the last element when it is
\* stored and for as long as no other call has appended after it.
C5_VisibleAfterReturn ==
  \A w \in Workers :
    /\ pc[w] = "Unlock" =>
         slot[w] = Len(answers) /\ answers[Len(answers)] = saveArg[w]
    /\ saveReturned(w) =>
         /\ slot[w] \in 1..Len(answers)
         /\ answers[slot[w]] = saveArg[w]
         /\ (\A u \in Workers : slot[u] <= slot[w]) =>
              answers[Len(answers)] = saveArg[w]

\* Two calls have returned, so the batch of the earlier one is no longer last.
C5_Witness ==
  \E u, w \in Workers :
    /\ saveReturned(u) /\ saveReturned(w)
    /\ slot[u] < slot[w]
    /\ saveArg[u] # saveArg[w]

\* C6: if a call of save had returned when another was made, its batch is at
\* a lower index; and every call that has stored owns one index of its own,
\* which holds its whole batch.
C6_CallOrder ==
  /\ \A a, b \in Workers :
       (a \in pred[b] /\ slot[b] > 0) => (slot[a] > 0 /\ slot[a] < slot[b])
  /\ \A w \in Workers :
       slot[w] > 0 => slot[w] <= Len(answers) /\ answers[slot[w]] = saveArg[w]
  /\ \A u, w \in Workers : (u # w /\ slot[u] > 0) => slot[u] # slot[w]
  /\ Len(answers) = Cardinality({w \in Workers : slot[w] > 0})

\* One call returned before the other was made, and both have stored.
C6_Witness ==
  \E a, b \in Workers : a \in pred[b] /\ slot[b] > 0 /\ saveReturned(b)

\* C7: the catalog is never written, and every GET /questions is answered
\* with the same four questions in definition order, ids 1 to 4, whatever
\* has been stored meanwhile.
C7_CatalogImmutable ==
  /\ [](/\ questions = questionsInit
        /\ \A w \in Workers :
             (isGet(w) /\ pc[w] = "Done") =>
               /\ resp[w].status = StatusOK
               /\ resp[w].ctype = "application/json"
               /\ resp[w].body.kind = "array"
               /\ Len(resp[w].body.elems) = 4
               /\ \A i \in 1..4 :
                    resp[w].body.elems[i].members =
                      <<Member(tagId, JNum("int", i)),
                        Member(tagText, JStr(questionsInit[i].Text)),
                        Member(tagType, JStr(questionsInit[i].Type))>>
        /\ \A u, w \in Workers :
             (isGet(u) /\ isGet(w) /\ pc[u] = "Done" /\ pc[w] = "Done") =>
               resp[u] = resp[w])
  /\ [][questions' = questions]_vars

\* A GET is answered after a POST has stored its batch.
C7_Witness ==
  \E u, w \in Workers :
    /\ isGet(u) /\ pc[u] = "Done"
    /\ isPost(w) /\ pc[w] = "Done" /\ slot[w] > 0

\* The batch that holds no answer, as decoded from {"answers":[]}.
EmptyBatch == AnswersRequest(MakeSlice(<<>>))

\* C8: storing a batch of zero answers adds exactly one element to the store,
\* the batch itself, at the end; and a POST /answers with {"answers":[]} is
\* answered with the ok envelope, its empty batch being in the store.
C8_EmptyBatchAccepted ==
  /\ [](\A w \in Workers :
          (isPost(w) /\ body[w] = ClientBody(<<>>) /\ pc[w] = "Done") =>
            /\ resp[w] = OkResponse
            /\ slot[w] \in 1..Len(answers)
            /\ answers[slot[w]] = EmptyBatch)
  /\ [][\A w \in Workers :
          (StoreSlice(w) /\ Len(saveArg[w].Answers.elems) = 0) =>
            /\ Len(answers') = Len(answers) + 1
            /\ answers'[Len(answers')] = saveArg[w]
            /\ SubSeq(answers', 1, Len(answers)) = answers]_vars

\* An empty submission is stored after a submission with an answer, and
\* answered.
C8_Witness ==
  \E w \in Workers :
    /\ isPost(w) /\ body[w] = ClientBody(<<>>) /\ pc[w] = "Done"
    /\ slot[w] = 2 /\ answers[2] = EmptyBatch
    /\ Len(answers[1].Answers.elems) = 1

\* The body classes C9 names, with the keys as the claim spells them.
wronglyTypedElement(e) ==
  /\ e.kind = "object"
  /\ \E i \in 1..Len(e.members) :
       \/ /\ e.members[i].key = tagQuestionId
          /\ ~(e.members[i].val.kind = "number" /\ e.members[i].val.form = "int")
       \/ /\ e.members[i].key = tagValue
          /\ e.members[i].val.kind # "string"

ClaimedWrongShape(b) ==
  \/ b.kind \in {"malformed", "empty"}
  \/ b.kind \in {"bool", "number", "string", "array"}
  \/ b.kind = "null"
  \/ /\ b.kind = "object"
     /\ \A i \in 1..Len(b.members) : b.members[i].key # tagAnswers
  \/ /\ b.kind = "object"
     /\ \E i \in 1..Len(b.members) :
          /\ b.members[i].key = tagAnswers
          /\ \/ b.members[i].val.kind # "array"
             \/ \E k \in 1..Len(b.members[i].val.elems) :
                  wronglyTypedElement(b.members[i].val.elems[k])

names(k, tag) == foldName(k) = foldName(tag)

\* The bodies on which Decode reports an error, read off the body alone:
\* some member, wherever it stands and however often its key occurs, binds a
\* field to a value of a kind the field cannot take.
badElement(e) ==
  \/ e.kind \notin {"null", "object"}
  \/ /\ e.kind = "object"
     /\ \E i \in 1..Len(e.members) :
          \/ /\ names(e.members[i].key, tagQuestionId)
             /\ ~(\/ e.members[i].val.kind = "null"
                  \/ /\ e.members[i].val.kind = "number"
                     /\ e.members[i].val.form = "int")
          \/ /\ names(e.members[i].key, tagValue)
             /\ e.members[i].val.kind \notin {"null", "string"}

RejectedBody(b) ==
  \/ b.kind \in {"malformed", "empty"}
  \/ b.kind \in {"bool", "number", "string", "array"}
  \/ /\ b.kind = "object"
     /\ \E i \in 1..Len(b.members) :
          /\ names(b.members[i].key, tagAnswers)
          /\ \/ b.members[i].val.kind \notin {"null", "array"}
             \/ /\ b.members[i].val.kind = "array"
                /\ \E k \in 1..Len(b.members[i].val.elems) :
                     badElement(b.members[i].val.elems[k])

\* The bodies that hold no "answers" array and decode all the same.
NilBatchBody(b) ==
  \/ b.kind = "null"
  \/ /\ b.kind = "object"
     /\ \A i \in 1..Len(b.members) :
          names(b.members[i].key, tagAnswers) => b.members[i].val.kind = "null"

\* The members of object e that name the field tagged tag and bind it to a
\* value the field takes: ok(j) says which values those are.
storing(e, tag, ok(_)) ==
  {i \in 1..Len(e.members) :
     names(e.members[i].key, tag) /\ ok(e.members[i].val)}

isIntLiteral(j) == j.kind = "number" /\ j.form = "int"
isStringLiteral(j) == j.kind = "string"

Last(S) == CHOOSE i \in S : \A k \in S : k <= i

\* The answer an element of a first "answers" array leaves: of an object the
\* last questionId that is an integer literal within the range of int and
\* the last value that is a string, 0 and "" where there is none; of
\* anything else, null too, the zero answer.
AnswerOf(e) ==
  IF e.kind # "object" THEN ZeroAnswer
  ELSE Answer(IF storing(e, tagQuestionId, isIntLiteral) = {} THEN 0
              ELSE e.members[Last(storing(e, tagQuestionId, isIntLiteral))].val.n,
              IF storing(e, tagValue, isStringLiteral) = {} THEN ""
              ELSE e.members[Last(storing(e, tagValue, isStringLiteral))].val.s)

\* The members of body b that name the Answers field.
answersMembers(b) ==
  {i \in 1..Len(b.members) : names(b.members[i].key, tagAnswers)}

\* A body with exactly one member that names the Answers field, an array.
OneArrayBody(b) ==
  /\ b.kind = "object"
  /\ \E i \in answersMembers(b) :
       answersMembers(b) = {i} /\ b.members[i].val.kind = "array"

TheArray(b) == b.members[CHOOSE i \in answersMembers(b) : TRUE].val.elems

WellShaped(b) ==
  /\ b.kind = "object" /\ Len(b.members) = 1
  /\ b.members[1].key = tagAnswers
  /\ b.members[1].val.kind = "array"
  /\ \A i \in 1..Len(b.members[1].val.elems) :
       LET e == b.members[1].val.elems[i]
       IN  /\ e.kind = "object" /\ Len(e.members) = 2
           /\ e.members[1].key = tagQuestionId
           /\ e.members[1].val.kind = "number"
           /\ e.members[1].val.form = "int"
           /\ e.members[2].key = tagValue
           /\ e.members[2].val.kind = "string"

\* The question/value pairs of a well-shaped body, in the body's order.
PairsOf(b) ==
  [i \in 1..Len(b.members[1].val.elems) |->
     Answer(b.members[1].val.elems[i].members[1].val.n,
            b.members[1].val.elems[i].members[2].val.s)]

CatalogIds == {questions[i].ID : i \in 1..Len(questions)}

\* C10: every well-shaped body is accepted whatever its questionIds, and the
\* batch stored for it holds exactly the body's pairs in the body's order;
\* whatever batch Decode yields without error is stored unchanged.
C10_StoredAsIs ==
  \A w \in Workers :
    decoded(w) =>
      /\ WellShaped(body[w]) =>
           /\ ~err[w]
           /\ pc[w] = "Done" =>
                /\ resp[w] = OkResponse
                /\ slot[w] \in 1..Len(answers)
                /\ answers[slot[w]].Answers.elems = PairsOf(body[w])
      /\ (~err[w] /\ slot[w] > 0) => answers[slot[w]] = req[w]

\* A stored batch whose first answer names no question of the catalog and
\* whose last answer names one.
C10_Witness ==
  \E w \in Workers :
    /\ isPost(w) /\ pc[w] = "Done" /\ WellShaped(body[w]) /\ slot[w] > 0
    /\ Len(answers[slot[w]].Answers.elems) = MaxBatchLen
    /\ answers[slot[w]].Answers.elems[1].QuestionID \notin CatalogIds
    /\ answers[slot[w]].Answers.elems[MaxBatchLen].QuestionID \in CatalogIds
    /\ resp[w] = OkResponse

\* No request is in flight: every worker is still idle or has finished.
allFinished == \A w \in Workers : pc[w] \in {"idle", "Done"}

\* The POST /answers requests whose handler has answered with the ok envelope.
okPosts == {w \in Workers : isPost(w) /\ resp[w] = OkResponse}

\* C11: once every request has finished, the store holds as many batches as
\* there are POST /answers requests answered with the ok envelope; and at no
\* time have more requests been answered ok than batches are stored.
C11_CountMatchesAcks ==
  /\ Cardinality(okPosts) <= Len(answers)
  /\ allFinished => Len(answers) = Cardinality(okPosts)

\* The end-to-end scenario: a submission with one answer, then one with an
\* empty answers array, both answered ok, two batches stored.
C11_Witness ==
  /\ allFinished
  /\ Cardinality(okPosts) = 2
  /\ Len(answers) = 2
  /\ Len(answers[1].Answers.elems) = 1
  /\ answers[2] = EmptyBatch

\* The workers inside the critical section of save, by their position.
inCritical == {w \in Workers : pc[w] \in {"Append", "Store", "Unlock"}}

\* C12: at most one worker is between Lock and Unlock of save; every step
\* that reads or writes the answers slice is taken by the worker that holds
\* the locked mutex; and a worker that finds the mutex locked stays where it
\* is, leaving the slice alone.
C12_MutualExclusion ==
  /\ [](/\ Cardinality(inCritical) <= 1
        /\ Cardinality(holders) <= 1
        /\ holders = inCritical)
  /\ [][\A w \in Workers :
          /\ (AppendBatch(w) \/ StoreSlice(w)) => (mu /\ holders = {w})
          /\ (pc[w] = "Lock" /\ mu) => pc'[w] = "Lock"]_vars
  /\ [][answers' # answers => \E w \in holders : StoreSlice(w)]_vars

\* One worker is inside the critical section while another waits at Lock.
C12_Witness ==
  \E u, w \in Workers :
    /\ pc[u] = "Store" /\ holders = {u} /\ mu
    /\ pc[w] = "Lock"

\* C13: a worker holds the mutex only between Lock and Unlock of save: not
\* while it decodes the body and not while it writes a response.  Lock is
\* attempted with the body already decoded, and whatever step writes a
\* response is taken by a worker that holds no lock, the ok response by a
\* worker whose save has returned.
C13_LockCoversOnlyAppend ==
  /\ [](\A w \in Workers :
          /\ w \in holders => pc[w] \in {"Append", "Store", "Unlock"}
          /\ pc[w] \in {"Lock", "Append", "Store", "Unlock"} =>
               /\ ~err[w]
               /\ req[w] = Decode(body[w]).req
               /\ resp[w] = NoResponse)
  /\ [][\A w \in Workers :
          /\ (StartDecode(w) \/ DecodeBody(w)) =>
               (w \notin holders /\ w \notin holders')
          /\ resp'[w] # resp[w] =>
               /\ w \notin holders /\ w \notin holders'
               /\ isPost(w) /\ resp'[w] = OkResponse =>
                    saveReturned(w) /\ slot[w] > 0]_vars

\* A worker is about to write its ok response, its lock released, while
\* another worker holds the mutex.
C13_Witness ==
  \E u, w \in Workers :
    /\ pc[w] = "Saved" /\ w \notin holders
    /\ u \in holders /\ mu

\* Some request is past the read of its body and not yet finished.
someRunning ==
  \E w \in Workers : pc[w] \notin {"idle", "Decoding", "Done"}

\* C14 as claimed: under fair scheduling every call of save that has started
\* acquires the lock, appends and returns; every POST /answers that was
\* received ends with its error or its success reported; and whenever a
\* request is in flight some handler step can be taken.
C14_EveryPostEnds ==
  /\ \A w \in Workers : (pc[w] = "Lock") ~> (saveReturned(w) /\ slot[w] > 0)
  /\ \A w \in Workers :
       (isPost(w) /\ pc[w] = "Received") ~>
         (pc[w] = "Done" /\ resp[w] \in {OkResponse, BadRequestResponse})
  /\ [](allFinished \/ ENABLED (\E w \in Workers : Handle(w)))

\* C14, amended: under fair scheduling every call of save that has started
\* acquires the lock, appends and returns; every POST /answers whose Decode
\* has returned ends with its error or its success reported, while a request
\* whose body never comes in stays in Decode; and whenever a request is past
\* the read of its body and not finished, some handler step that waits for
\* no client can be taken (no deadlock).
C14_EveryAppendCompletes ==
  /\ \A w \in Workers : (pc[w] = "Lock") ~> (saveReturned(w) /\ slot[w] > 0)
  /\ \A w \in Workers :
       (isPost(w) /\ pc[w] \in {"DecodeFailed", "Decoded"}) ~>
         (pc[w] = "Done" /\ resp[w] \in {OkResponse, BadRequestResponse})
  /\ \A w \in Workers :
       (isPost(w) /\ pc[w] = "Received") ~> (pc[w] = "Decoding")
  /\ [](someRunning =>
          ENABLED (\E w \in Workers : pc[w] # "Decoding" /\ Handle(w)))

\* Every worker has called save and one of them waited for the mutex while
\* another held it; all calls have returned.
C14_Witness ==
  /\ \A w \in Workers : saveReturned(w) /\ slot[w] > 0
  /\ \E w \in Workers : pred[w] = {} /\ slot[w] = NumWorkers

\* The state of a submission request in the words of the design, read off the
\* handler's position p and its err e.
PhaseOf(p, e) ==
  CASE p = "idle" -> "NotArrived"
    [] p = "Received" -> "Received"
    [] p = "Decoding" -> "Decoding"
    [] p = "DecodeFailed" -> "DecodeFailed"
    [] p = "Decoded" -> "Decoded"
    [] p \in {"Lock", "Append", "Store", "Unlock"} -> "Appending"
    [] p = "Saved" -> "Appended"
    [] p = "Done" -> IF e THEN "DecodeFailed" ELSE "Appended"

\* The moves the design allows.
PhaseEdges ==
  {<<"NotArrived", "Received">>, <<"Received", "Decoding">>,
   <<"Decoding", "DecodeFailed">>, <<"Decoding", "Decoded">>,
   <<"Decoded", "Appending">>, <<"Appending", "Appended">>}

\* C15: a submission request moves only along Received -> Decoding ->
\* DecodeFailed, or Received -> Decoding -> Decoded -> Appending -> Appended;
\* it leaves Decoding for DecodeFailed exactly when Decode reports an error;
\* DecodeFailed and Appended are never left, so a failed decode is not tried
\* again and never reaches Appending; and the body is decoded at most once.
C15_RequestStateMachine ==
  [][\A w \in Workers :
       isPost(w)' =>
         LET from == PhaseOf(pc[w], err[w])
             to == PhaseOf(pc'[w], err'[w])
         IN  /\ from # to => <<from, to>> \in PhaseEdges
             /\ from \in {"DecodeFailed", "Appended"} => to = from
             /\ (from = "Decoding" /\ to # from) =>
                  (to = "DecodeFailed" <=> Decode(body[w]).err)
             /\ to = "Appending" => (~err'[w] /\ calls'[w] = 1)
             /\ to = "DecodeFailed" => calls'[w] = 0]_vars

\* One request has ended in DecodeFailed and another in Appended.
C15_Witness ==
  \E u, w \in Workers :
    /\ isPost(u) /\ pc[u] = "Done" /\ PhaseOf(pc[u], err[u]) = "DecodeFailed"
    /\ isPost(w) /\ pc[w] = "Done" /\ PhaseOf(pc[w], err[w]) = "Appended"
    /\ slot[w] > 0 /\ slot[u] = 0

\* C16: a GET /questions never waits for the store's mutex and never touches
\* the store: its one step can be taken whether or not the mutex is locked,
\* answers with status 200, leaves the store and the mutex as they are, and
\* its worker never calls save nor holds the mutex.
C16_CatalogReadNeverBlocks ==
  /\ [](\A w \in Workers :
          isGet(w) =>
            /\ pc[w] \in {"Received", "Done"}
            /\ pc[w] = "Received" => ENABLED GetQuestions(w)
            /\ pc[w] = "Done" => resp[w].status = StatusOK
            /\ calls[w] = 0 /\ slot[w] = 0 /\ w \notin holders)
  /\ [][\A w \in Workers :
          GetQuestions(w) =>
            UNCHANGED <<answers, mu, holders, appended, saveArg>>]_vars

\* A GET has been answered while another worker holds the mutex inside save.
C16_Witness ==
  \E u, w \in Workers :
    /\ isGet(w) /\ pc[w] = "Done" /\ resp[w].status = StatusOK
    /\ pc[u] \in {"Append", "Store", "Unlock"} /\ mu

\* C17: writeJSON leaves the store and its mutex alone, whether its write
\* fails or not; a POST /answers whose ok response failed to be written is
\* finished with its batch still in the store at its index, after a single
\* call of save, and with the status 200 it had already sent: the failure
\* shows in the log only.
C17_WriteFailureKeepsStore ==
  /\ [](\A w \in Workers :
          logged[w] =>
            /\ pc[w] = "Done"
            /\ resp[w].status = StatusOK
            /\ isPost(w) =>
                 /\ calls[w] = 1
                 /\ slot[w] \in 1..Len(answers)
                 /\ answers[slot[w]] = saveArg[w]
                 /\ Cardinality({u \in Workers : slot[u] = slot[w]}) = 1)
  /\ [][\A w \in Workers :
          (RespondOK(w) \/ GetQuestions(w)) =>
            UNCHANGED <<answers, mu, holders, questions>>]_vars

\* The ok response of a stored submission failed to be written.
C17_Witness ==
  \E w \in Workers :
    /\ isPost(w) /\ pc[w] = "Done" /\ logged[w]
    /\ slot[w] > 0 /\ answers[slot[w]] = saveArg[w]
    /\ Len(saveArg[w].Answers.elems) = 1

\* C18: the mutex is locked exactly when one worker is between Lock and
\* Unlock of save, and never more than one is; a worker whose save has
\* returned holds nothing; so with no worker inside save, and so once every
\* request has finished, the mutex is free.
C18_LockHygiene ==
  /\ mu <=> Cardinality(inCritical) = 1
  /\ Cardinality(inCritical) <= 1
  /\ holders = inCritical
  /\ \A w \in Workers : saveReturned(w) => w \notin holders
  /\ inCritical = {} => ~mu
  /\ allFinished => ~mu

\* Every request has finished, each having stored a batch, and the mutex is
\* free.
C18_Witness ==
  /\ \A w \in Workers : pc[w] = "Done" /\ slot[w] > 0
  /\ ~mu /\ holders = {}

====
